---- MODULE Spec2Model ----
(***************************************************************************)
(* Model of src/main.cpp: the audiocontrol mixer (play_sample on the event *)
(* thread, produce on the audio callback thread, one SDL mutex) and the    *)
(* lifecycle of main/mainloop around it (open device, load the wav         *)
(* buffers, startup sample, unpause, event loop, free buffers, close).     *)
(*                                                                         *)
(* Spec      the mixer driven by an arbitrary client: any play_sample and  *)
(*           any produce call, interleaved statement by statement.         *)
(* SpecFair  Spec with fair scheduling of both threads.                    *)
(* SpecMain  the program: main and mainloop drive the mixer, the audio     *)
(*           thread calls produce while the device is open and unpaused.   *)
(***************************************************************************)
EXTENDS Integers, Sequences, FiniteSets, TLC

\* ---- bounds of the model ----
MaxSampleLen == 3   \* longest wav buffer, in bytes
MaxLen == 2         \* longest stream the audio device asks produce to fill

\* ---- values ----
Null == "null"
Free == "none"
Buffers == {"startup_sound", "shoot_sound", "explode_sound"}
Unwritten == -1     \* a stream position the callback has not (yet) written
INT_MAX == 2147483647

\* One cell more than the longest request: a write past len would show there.
StreamCap == MaxLen + 1

Base(b) == CASE b = "startup_sound" -> 10
             [] b = "shoot_sound" -> 20
             [] b = "explode_sound" -> 30

\* The bytes SDL_LoadWAV puts in a buffer of n bytes: all nonzero and all
\* different across buffers and offsets, so that a stream byte names the
\* buffer and the offset it was copied from.
WavData(b, n) == [i \in 1..n |-> Base(b) + i]

\* What a read of n bytes of released memory can return: the old bytes, or
\* whatever the allocator or a later owner put there.
FreedBytes(old, n) ==
    {[i \in 1..n |-> old[i]], [i \in 1..n |-> 0], [i \in 1..n |-> 99]}

VARIABLES
    m,              \* SDL_mutex *m: the thread that holds it, or Free
    dev,            \* audio device: "closed", "paused" or "running"
    sample,         \* Uint8 *sample: a buffer, or Null
    sample_size,    \* int sample_size
    played_bytes,   \* int played_bytes
    wav,            \* heap contents of the three wav buffers
    live,           \* live[b]: buffer b is allocated and not yet freed
    pcE,            \* event thread: position in main/mainloop/play_sample
    retE,           \* where play_sample returns to
    new_sample,     \* play_sample's arguments
    new_size,
    pcA,            \* audio thread: position in produce
    len,            \* produce's arguments: len, and the cells of stream
    stream,
    written_bytes,  \* produce's local
    c0,             \* history: played_bytes when the running produce tested it
    reads,          \* history: <<buffer, offset>> read by the last produce
    delivered,      \* history: sample bytes copied out since the last play_sample
    lastSet,        \* history: arguments of the last completed play_sample
    prev,           \* history: <<sample, sample_size, played_bytes>> the last play_sample replaced
    everSet,        \* history: some play_sample has started
    filled,         \* history: some produce has tested the cursor
    fillLens,       \* history: len of each produce that found unplayed bytes since
                    \* the last play_sample; NoLog where the log is not kept
    e               \* SDL_Event e of mainloop: <<type, key>> while it is dispatched

vars == <<m, dev, sample, sample_size, played_bytes, wav, live, pcE, retE,
          new_sample, new_size, pcA, len, stream, written_bytes, c0, reads,
          delivered, lastSet, prev, everSet, filled, fillLens, e>>

mixerVars == <<sample, sample_size, played_bytes>>
heapVars == <<wav, live>>
eventVars == <<pcE, retE, new_sample, new_size>>
audioVars == <<pcA, len, stream, written_bytes, c0, reads>>

\* ---- pure helpers of the source ----

\* template min (main.cpp 60-63)
min(t1, t2) == IF t1 < t2 THEN t1 ELSE t2

\* A Uint32 is the pair <<bit 31, bits 0..30>>, so that its whole range
\* 0 .. 2^32 - 1 is within reach. Uint32(n) is the Uint32 of an int n >= 0.
Uint32(n) == <<0, n>>

\* sample_size = new_size: Uint32 converted to int (two's complement wrap)
IntOfUint32(u) == IF u[1] = 0 THEN u[2] ELSE (u[2] - INT_MAX) - 1

\* a lock that does not wait for its holder
LockNoWait(t) == m' = t

\* SDL_LockMutex(m) by thread t: blocks until the mutex is free
SDL_LockMutex(t) == m = Free /\ m' = t

\* a path that returns without releasing the mutex
UnlockForgot(t) == UNCHANGED m

\* SDL_UnlockMutex(m)
SDL_UnlockMutex(t) == m' = Free

\* res.<b>_size: the length SDL_LoadWAV reported for buffer b
SizeOf(b) == Len(wav[b])

BlankStream == [i \in 1..StreamCap |-> Unwritten]

\* a constructor that leaves sample_size uninitialised
ConstructedUninit ==
    /\ m = Free
    /\ sample = Null
    /\ sample_size \in {0, 1}
    /\ played_bytes = 0

\* audiocontrol() : dev(0), sample(nullptr), sample_size(0), played_bytes(0)
Constructed ==
    /\ m = Free
    /\ sample = Null
    /\ sample_size = 0
    /\ played_bytes = 0

\* the fill log of a behaviour that keeps none (no produce has len 0)
NoLog == <<0>>
Logged(log, n) == IF log = NoLog THEN NoLog ELSE Append(log, n)
Cleared(log) == IF log = NoLog THEN NoLog ELSE <<>>

NoHistory ==
    /\ c0 = 0
    /\ reads = {}
    /\ delivered = <<>>
    /\ lastSet = <<Null, Uint32(0)>>
    /\ prev = <<Null, 0, 0>>
    /\ everSet = FALSE
    /\ filled = FALSE
    /\ e = <<"none", "">>

AudioIdle ==
    /\ pcA = "idle"
    /\ len = 0
    /\ stream = BlankStream
    /\ written_bytes = 0

\* ---- audiocontrol::play_sample (main.cpp 82-88), one statement a step ----

ps_lock ==
    /\ pcE = "ps_lock"
    /\ SDL_LockMutex("event")
    /\ pcE' = "ps_sample"
    /\ UNCHANGED <<dev, mixerVars, heapVars, retE, new_sample, new_size,
                   audioVars, delivered, lastSet, prev, filled, fillLens, everSet, e>>

\* a setter that releases the buffer it replaces
ps_sampleFreesOld ==
    /\ pcE = "ps_sample"
    /\ sample' = new_sample
    /\ prev' = <<sample, sample_size, played_bytes>>
    /\ live' = [b \in Buffers |-> live[b] /\ b # sample]
    /\ pcE' = "ps_size"
    /\ UNCHANGED <<m, dev, sample_size, played_bytes, wav, retE,
                   new_sample, new_size, audioVars, delivered, lastSet,
                   everSet, filled, fillLens, e>>

ps_sample ==
    /\ pcE = "ps_sample"
    /\ sample' = new_sample
    /\ prev' = <<sample, sample_size, played_bytes>>
    /\ pcE' = "ps_size"
    /\ UNCHANGED <<m, dev, sample_size, played_bytes, heapVars, retE,
                   new_sample, new_size, audioVars, delivered, lastSet,
                   everSet, filled, fillLens, e>>

ps_size ==
    /\ pcE = "ps_size"
    /\ sample_size' = IntOfUint32(new_size)
    /\ pcE' = "ps_played"
    /\ UNCHANGED <<m, dev, sample, played_bytes, heapVars, retE, new_sample,
                   new_size, audioVars, delivered, lastSet, prev, filled, fillLens, everSet, e>>

\* a play_sample that forgets to rewind the cursor
ResetCursorKeep(old) == old

\* played_bytes = 0
ResetCursor(old) == 0

ps_played ==
    /\ pcE = "ps_played"
    /\ played_bytes' = ResetCursor(played_bytes)
    /\ delivered' = <<>>
    /\ fillLens' = Cleared(fillLens)
    /\ pcE' = "ps_unlock"
    /\ UNCHANGED <<m, dev, sample, sample_size, heapVars, retE, new_sample,
                   new_size, audioVars, lastSet, prev, filled, everSet, e>>

ps_unlock ==
    /\ pcE = "ps_unlock"
    /\ SDL_UnlockMutex("event")
    /\ lastSet' = <<new_sample, new_size>>
    /\ pcE' = retE
    /\ UNCHANGED <<dev, mixerVars, heapVars, retE, new_sample, new_size,
                   audioVars, delivered, prev, filled, fillLens, everSet, e>>

\* a call play_sample(b, size of b) that returns to ret
CallPlaySample(b, ret) ==
    /\ new_sample' = b
    /\ new_size' = Uint32(SizeOf(b))
    /\ retE' = ret
    /\ pcE' = "ps_lock"
    /\ everSet' = TRUE

\* ---- audiocontrol::produce (main.cpp 90-102), one statement a step ----

\* audiocallback (main.cpp 142-145): the device asks for n bytes
audiocallback ==
    /\ pcA = "idle"
    /\ dev = "running"
    /\ \E n \in 1..MaxLen :
        /\ len' = n
    /\ pcA' = "pr_lock"
    /\ UNCHANGED <<m, dev, mixerVars, heapVars, eventVars, stream,
                   written_bytes, c0, reads, delivered, lastSet, prev, filled, fillLens,
                   everSet, e>>

pr_lock ==
    /\ pcA = "pr_lock"
    /\ SDL_LockMutex("audio")
    /\ written_bytes' = 0
    /\ pcA' = "pr_test"
    /\ UNCHANGED <<dev, mixerVars, heapVars, eventVars, len, stream, c0, reads,
                   delivered, lastSet, prev, filled, fillLens, everSet, e>>

\* a test that is off by one: the exhausted sample still counts as unplayed
HasUnplayedOrEqual(pb, ss) == pb <= ss

\* if(played_bytes < sample_size)
HasUnplayed(pb, ss) == pb < ss

\* a copy length that is not clamped to what is left of the sample
WrittenNoClamp(n, ss, pb) == n

\* min(len, sample_size - played_bytes)
WrittenBytes(n, ss, pb) == min(n, ss - pb)

pr_test ==
    /\ pcA = "pr_test"
    /\ c0' = played_bytes
    /\ filled' = TRUE
    /\ IF HasUnplayed(played_bytes, sample_size)
       THEN /\ written_bytes' = WrittenBytes(len, sample_size, played_bytes)
            /\ fillLens' = Logged(fillLens, len)
            /\ pcA' = "pr_memmove"
       ELSE /\ pcA' = "pr_memset"
            /\ UNCHANGED <<written_bytes, fillLens>>
    /\ UNCHANGED <<m, dev, mixerVars, heapVars, eventVars, len, stream, reads,
                   delivered, lastSet, prev, everSet, e>>

\* SDL_memmove(stream, sample, written_bytes): the offset in sample that
\* stream position i (from 1) is copied from, given the cursor pb
MemmoveSrc(i, pb) == i

\* positions a copy of n bytes touches
CopyRange(n) == 1..n

\* the bytes a read of buffer b at offsets src[i] can return
ReadBytes(b, src, n) ==
    LET inside(i) == b \in Buffers /\ src[i] \in 1..Len(wav[b])
        old == [i \in 1..n |-> IF inside(i) THEN wav[b][src[i]] ELSE 0]
    IN IF b \in Buffers /\ live[b] /\ \A i \in 1..n : inside(i)
       THEN {old}
       ELSE FreedBytes(old, n)

pr_memmove ==
    /\ pcA = "pr_memmove"
    /\ LET src == [i \in CopyRange(written_bytes) |-> MemmoveSrc(i, played_bytes)]
       IN /\ \E got \in ReadBytes(sample, src, written_bytes) :
                /\ stream' = [i \in 1..StreamCap |->
                                 IF i \in CopyRange(written_bytes) /\ i <= StreamCap
                                 THEN got[i] ELSE stream[i]]
                /\ delivered' = delivered \o got
          /\ reads' = {<<sample, src[i]>> : i \in CopyRange(written_bytes)}
    /\ pcA' = "pr_advance"
    /\ UNCHANGED <<m, dev, mixerVars, heapVars, eventVars, len, written_bytes,
                   c0, lastSet, prev, filled, fillLens, everSet, e>>

\* an assignment where the source has +=
AdvanceAssign(pb, wb) == wb

\* played_bytes += written_bytes
Advance(pb, wb) == pb + wb

pr_advance ==
    /\ pcA = "pr_advance"
    /\ played_bytes' = Advance(played_bytes, written_bytes)
    /\ pcA' = "pr_memset"
    /\ UNCHANGED <<m, dev, sample, sample_size, heapVars, eventVars, len,
                   stream, written_bytes, c0, reads, delivered, lastSet, prev, filled, fillLens,
                   everSet, e>>

\* silence only after a partial copy, not for an exhausted sample
NeedsSilenceAfterCopy(wb, n) == 0 < wb /\ wb < n

\* if(written_bytes < len)
NeedsSilence(wb, n) == wb < n

\* a memset that starts at stream instead of stream + written_bytes
MemsetFromStart(wb, n) == 1..(n - wb)

\* SDL_memset(stream + written_bytes, 0, len - written_bytes): positions set
MemsetRange(wb, n) == (wb + 1)..n

pr_memset ==
    /\ pcA = "pr_memset"
    /\ IF NeedsSilence(written_bytes, len)
       THEN stream' = [i \in 1..StreamCap |->
                          IF i \in MemsetRange(written_bytes, len) THEN 0
                          ELSE stream[i]]
       ELSE UNCHANGED stream
    /\ pcA' = "pr_unlock"
    /\ UNCHANGED <<m, dev, mixerVars, heapVars, eventVars, len, written_bytes,
                   c0, reads, delivered, lastSet, prev, filled, fillLens, everSet, e>>

\* SDL_UnlockMutex and return: the device takes the stream back, produce's
\* parameters and locals are gone
pr_unlock ==
    /\ pcA = "pr_unlock"
    /\ SDL_UnlockMutex("audio")
    /\ pcA' = "idle"
    /\ len' = 0
    /\ stream' = BlankStream
    /\ written_bytes' = 0
    /\ c0' = 0
    /\ reads' = {}
    /\ UNCHANGED <<dev, mixerVars, heapVars, eventVars, delivered, lastSet,
                   prev, filled, fillLens, everSet, e>>

\* ---- the mixer under an arbitrary client ----

\* the client calls play_sample with one of the loaded buffers
ClientPlay ==
    /\ pcE = "client"
    /\ \E b \in Buffers : CallPlaySample(b, "client")
    /\ UNCHANGED <<m, dev, mixerVars, heapVars, audioVars, delivered, lastSet, prev, filled, fillLens,
                   e>>

InitMixer ==
    /\ Constructed
    /\ dev = "running"
    /\ \E sz \in [Buffers -> 0..MaxSampleLen] :
          wav = [b \in Buffers |-> WavData(b, sz[b])]
    /\ live = [b \in Buffers |-> TRUE]
    /\ pcE = "client"
    /\ retE = "client"
    /\ new_sample = Null
    /\ new_size = Uint32(0)
    /\ AudioIdle
    /\ NoHistory

Init ==
    /\ InitMixer
    /\ fillLens = NoLog

Next ==
    \/ ClientPlay
    \/ ps_lock
    \/ ps_sample
    \/ ps_size
    \/ ps_played
    \/ ps_unlock
    \/ audiocallback
    \/ pr_lock
    \/ pr_test
    \/ pr_memmove
    \/ pr_advance
    \/ pr_memset
    \/ pr_unlock

Spec == Init /\ [][Next]_vars

\* The same mixer and client under fair scheduling: a thread that can take a
\* step eventually takes it, and a thread that finds the mutex free again
\* and again eventually gets it. Buffers are empty or of full length.
InitFair ==
    /\ Init
    /\ \A b \in Buffers : Len(wav[b]) \in {0, MaxSampleLen}

SpecFair ==
    /\ InitFair
    /\ [][Next]_vars
    /\ SF_vars(ps_lock)
    /\ SF_vars(pr_lock)
    /\ WF_vars(ps_sample \/ ps_size \/ ps_played \/ ps_unlock)
    /\ WF_vars(pr_test \/ pr_memmove \/ pr_advance \/ pr_memset \/ pr_unlock)

\* The same again with a device that keeps asking for bytes (the callback
\* is weakly fair), keeping the log of the fills of each sample.
InitPlay ==
    /\ InitMixer
    /\ \A b \in Buffers : Len(wav[b]) \in {0, MaxSampleLen}
    /\ fillLens = <<>>

SpecPlay ==
    /\ InitPlay
    /\ [][Next]_vars
    /\ SF_vars(ps_lock)
    /\ SF_vars(pr_lock)
    /\ WF_vars(ps_sample \/ ps_size \/ ps_played \/ ps_unlock)
    /\ WF_vars(pr_test \/ pr_memmove \/ pr_advance \/ pr_memset \/ pr_unlock)
    /\ WF_vars(audiocallback)

\* ---- play_sample over the whole range of Uint32 ----

\* the least and greatest lengths with bit 31 clear and with bit 31 set
SizeInputs == {<<h, l>> : h \in {0, 1}, l \in {0, 1, INT_MAX}}

\* a call play_sample(b, u) with any Uint32 u
ClientPlayAny ==
    /\ pcE = "client"
    /\ \E b \in Buffers, u \in SizeInputs :
          /\ new_sample' = b
          /\ new_size' = u
    /\ retE' = "client"
    /\ pcE' = "ps_lock"
    /\ everSet' = TRUE
    /\ UNCHANGED <<m, dev, mixerVars, heapVars, audioVars, delivered, lastSet,
                   prev, filled, fillLens, e>>

\* the callback, as long as the cursor is within the bytes the model holds
audiocallbackCapped ==
    /\ played_bytes < MaxSampleLen
    /\ audiocallback

\* the buffers hold the first MaxSampleLen bytes of each sample
InitSize ==
    /\ InitMixer
    /\ \A b \in Buffers : Len(wav[b]) = MaxSampleLen
    /\ fillLens = NoLog

NextSize ==
    \/ ClientPlayAny
    \/ ps_lock
    \/ ps_sample
    \/ ps_size
    \/ ps_played
    \/ ps_unlock
    \/ audiocallbackCapped
    \/ pr_lock
    \/ pr_test
    \/ pr_memmove
    \/ pr_advance
    \/ pr_memset
    \/ pr_unlock

SpecSize == InitSize /\ [][NextSize]_vars

\* ---- the program: main (main.cpp 210-259) and mainloop (169-204) ----

\* a switch that forgets case SDLK_q
KeyQuitEscOnly == {"SDLK_ESCAPE"}

KeyQuit == {"SDLK_ESCAPE", "SDLK_q"}
Keys == {"SDLK_ESCAPE", "SDLK_q", "SDLK_SPACE"}

\* what SDL_PollEvent can put in e: <<e.type, e.key.keysym.sym>>
NoEvent == <<"none", "">>
Events ==
    {<<"SDL_KEYDOWN", k>> : k \in Keys} \cup
    {<<t, "">> : t \in {"SDL_QUIT", "SDL_JOYBUTTONDOWN",
                        "SDL_MOUSEBUTTONDOWN", "SDL_KEYUP"}}

\* a device that starts calling back as soon as it is opened
main_openUnpaused ==
    /\ pcE = "main_open"
    /\ dev' = "running"
    /\ pcE' = "ml_res"
    /\ UNCHANGED <<m, mixerVars, heapVars, retE, new_sample, new_size,
                   audioVars, delivered, lastSet, prev, filled, fillLens, everSet, e>>

\* control.dev = SDL_OpenAudioDevice(...): the device opens paused
main_open ==
    /\ pcE = "main_open"
    /\ dev' = "paused"
    /\ pcE' = "ml_res"
    /\ UNCHANGED <<m, mixerVars, heapVars, retE, new_sample, new_size,
                   audioVars, delivered, lastSet, prev, filled, fillLens, everSet, e>>

\* resources res(rend): SDL_LoadWAV allocates and fills the three buffers
ml_res ==
    /\ pcE = "ml_res"
    /\ \E sz \in [Buffers -> 0..MaxSampleLen] :
          wav' = [b \in Buffers |-> WavData(b, sz[b])]
    /\ live' = [b \in Buffers |-> TRUE]
    /\ pcE' = "ml_startup"
    /\ UNCHANGED <<m, dev, mixerVars, retE, new_sample, new_size, audioVars,
                   delivered, lastSet, prev, filled, fillLens, everSet, e>>

\* control.play_sample(res.startup_sound, res.startup_size)
ml_startup ==
    /\ pcE = "ml_startup"
    /\ CallPlaySample("startup_sound", "ml_unpause")
    /\ UNCHANGED <<m, dev, mixerVars, heapVars, audioVars, delivered, lastSet,
                   prev, filled, fillLens, e>>

\* SDL_PauseAudioDevice(control.dev, 0)
ml_unpause ==
    /\ pcE = "ml_unpause"
    /\ dev' = "running"
    /\ pcE' = "ml_poll"
    /\ UNCHANGED <<m, mixerVars, heapVars, retE, new_sample, new_size,
                   audioVars, delivered, lastSet, prev, filled, fillLens, everSet, e>>

\* SDL_PollEvent(&e): the next event of the queue, or none and the loop
\* goes on to render
ml_poll ==
    /\ pcE = "ml_poll"
    /\ \E ev \in Events \cup {NoEvent} :
          /\ e' = ev
          /\ pcE' = IF ev = NoEvent THEN "ml_render" ELSE "ml_dispatch"
    /\ UNCHANGED <<m, dev, mixerVars, heapVars, retE, new_sample, new_size,
                   audioVars, delivered, lastSet, prev, filled, fillLens, everSet>>

\* e.type == SDL_QUIT: return
ml_quit ==
    /\ pcE = "ml_dispatch"
    /\ e[1] = "SDL_QUIT"
    /\ e' = NoEvent
    /\ pcE' = "ml_return"
    /\ UNCHANGED <<m, dev, mixerVars, heapVars, retE, new_sample, new_size,
                   audioVars, delivered, lastSet, prev, filled, fillLens, everSet>>

\* e.type == SDL_KEYDOWN: return on a quit key, else the explode sample
ml_keydown ==
    /\ pcE = "ml_dispatch"
    /\ e[1] = "SDL_KEYDOWN"
    /\ e' = NoEvent
    /\ IF e[2] \in KeyQuit
       THEN /\ pcE' = "ml_return"
            /\ UNCHANGED <<retE, new_sample, new_size, everSet>>
       ELSE CallPlaySample("explode_sound", "ml_poll")
    /\ UNCHANGED <<m, dev, mixerVars, heapVars, audioVars, delivered, lastSet,
                   prev, filled, fillLens>>

\* e.type == SDL_JOYBUTTONDOWN || e.type == SDL_MOUSEBUTTONDOWN: the shoot sample
ml_button ==
    /\ pcE = "ml_dispatch"
    /\ e[1] \in {"SDL_JOYBUTTONDOWN", "SDL_MOUSEBUTTONDOWN"}
    /\ e' = NoEvent
    /\ CallPlaySample("shoot_sound", "ml_poll")
    /\ UNCHANGED <<m, dev, mixerVars, heapVars, audioVars, delivered, lastSet,
                   prev, filled, fillLens>>

\* any other event type: nothing, poll again
ml_other ==
    /\ pcE = "ml_dispatch"
    /\ e[1] \notin {"SDL_QUIT", "SDL_KEYDOWN", "SDL_JOYBUTTONDOWN",
                         "SDL_MOUSEBUTTONDOWN"}
    /\ e' = NoEvent
    /\ pcE' = "ml_poll"
    /\ UNCHANGED <<m, dev, mixerVars, heapVars, retE, new_sample, new_size,
                   audioVars, delivered, lastSet, prev, filled, fillLens, everSet>>

\* the queue is empty: render the frame, pace it, poll again
ml_render ==
    /\ pcE = "ml_render"
    /\ pcE' = "ml_poll"
    /\ UNCHANGED <<m, dev, mixerVars, heapVars, retE, new_sample, new_size,
                   audioVars, delivered, lastSet, prev, filled, fillLens, everSet, e>>

\* mainloop returns: ~resources runs SDL_FreeWAV on explode_sound,
\* shoot_sound and startup_sound
resources_dtor ==
    /\ pcE = "ml_return"
    /\ live' = [b \in Buffers |-> FALSE]
    /\ pcE' = "main_close"
    /\ UNCHANGED <<m, dev, mixerVars, wav, retE, new_sample, new_size,
                   audioVars, delivered, lastSet, prev, filled, fillLens, everSet, e>>

\* return from main: ~audiocontrol closes the device, which waits for a
\* running callback to return and lets no further one start
main_close ==
    /\ pcE = "main_close"
    /\ pcA = "idle"
    /\ dev' = "closed"
    /\ pcE' = "done"
    /\ UNCHANGED <<m, mixerVars, heapVars, retE, new_sample, new_size,
                   audioVars, delivered, lastSet, prev, filled, fillLens, everSet, e>>

InitMain ==
    /\ Constructed
    /\ dev = "closed"
    /\ wav = [b \in Buffers |-> <<>>]
    /\ live = [b \in Buffers |-> FALSE]
    /\ pcE = "main_open"
    /\ retE = "main_open"
    /\ new_sample = Null
    /\ new_size = Uint32(0)
    /\ AudioIdle
    /\ NoHistory
    /\ fillLens = NoLog

NextMain ==
    \/ main_open
    \/ ml_res
    \/ ml_startup
    \/ ml_unpause
    \/ ml_poll
    \/ ml_quit
    \/ ml_keydown
    \/ ml_button
    \/ ml_other
    \/ ml_render
    \/ resources_dtor
    \/ main_close
    \/ ps_lock
    \/ ps_sample
    \/ ps_size
    \/ ps_played
    \/ ps_unlock
    \/ audiocallback
    \/ pr_lock
    \/ pr_test
    \/ pr_memmove
    \/ pr_advance
    \/ pr_memset
    \/ pr_unlock

SpecMain == InitMain /\ [][NextMain]_vars

\* ---- properties ----

InPlaySample == pcE \in {"ps_sample", "ps_size", "ps_played", "ps_unlock"}
InProduce == pcA \in {"pr_test", "pr_memmove", "pr_advance", "pr_memset", "pr_unlock"}

\* produce has written the whole stream and still holds the lock
Filled == pcA = "pr_unlock"

\* the bytes of buffer b, as a set
BytesOf(b) == IF b \in Buffers THEN {wav[b][i] : i \in 1..Len(wav[b])} ELSE {}

\* number of sample bytes a fill must copy when it starts at cursor c
Expected(n, ss, c) == IF c < ss THEN min(n, ss - c) ELSE 0

\* C1: successive fills deliver consecutive slices of the active sample: a
\* fill that starts at cursor c copies data[c .. c + k - 1] to the start of
\* the stream, so everything copied out since the sample was set is the
\* sample's prefix, in order.
C1_ConsecutiveSlices ==
    /\ pcA = "pr_advance" =>
          \A i \in 1..written_bytes : stream[i] = wav[sample][c0 + i]
    /\ (pcA \in {"pr_advance", "pr_memset", "pr_unlock"} /\ sample \in Buffers) =>
          delivered = SubSeq(wav[sample], 1, Len(delivered))

\* C2: every fill writes every byte of stream[0:len]: the first k bytes are
\* copied sample bytes, with k = min(len, sample_size - cursor) when the
\* cursor is below sample_size and 0 otherwise, the other len - k bytes are
\* zero, and no position at or beyond len is written.
C2_FullOutput ==
    Filled =>
        LET k == Expected(len, sample_size, c0)
        IN /\ written_bytes = k
           /\ \A i \in 1..k : stream[i] \in BytesOf(sample)
           /\ Cardinality(reads) = k
           /\ \A i \in (k + 1)..len : stream[i] = 0
           /\ \A i \in (len + 1)..StreamCap : stream[i] = Unwritten

C2_Witness ==
    /\ Filled
    /\ 0 < written_bytes
    /\ written_bytes < len
    /\ stream[len] = 0
    /\ stream[1] \in BytesOf(sample)

\* C3: whenever play_sample is not in the middle of replacing the tuple,
\* 0 <= played_bytes <= sample_size, under every interleaving of play_sample
\* and produce.
C3_CursorInRange ==
    ~InPlaySample => (0 <= played_bytes /\ played_bytes <= sample_size)

C3_Witness ==
    /\ pcA = "pr_memset"
    /\ written_bytes > 0
    /\ played_bytes = sample_size
    /\ sample_size = MaxSampleLen
    /\ pcE = "ps_lock"

\* C4: after play_sample(A) then play_sample(B) nothing of A is delivered:
\* every sample byte a fill writes is a byte of B, the buffer of the last
\* completed play_sample, and the fills before anything of B was delivered
\* yield B from offset 0 followed by zeros, whether or not A was partly played.
C4_ReplaceDiscards ==
    Filled =>
        /\ \A i \in 1..len : stream[i] # 0 => stream[i] \in BytesOf(lastSet[1])
        /\ \A r \in reads : r[1] = lastSet[1]
        /\ Len(delivered) = written_bytes =>
              \A i \in 1..len :
                  stream[i] = IF i <= IntOfUint32(lastSet[2]) THEN wav[lastSet[1]][i] ELSE 0

C4_Witness ==
    /\ Filled
    /\ Len(delivered) = written_bytes
    /\ written_bytes > 0
    /\ prev[1] \in Buffers
    /\ prev[1] # sample
    /\ 0 < prev[3]
    /\ prev[3] < prev[2]

\* C5: once the cursor has reached sample_size, a fill writes only zeros,
\* reads nothing and leaves the cursor where it was.
C5_ExhaustedSilence ==
    (Filled /\ c0 >= sample_size) =>
        /\ \A i \in 1..len : stream[i] = 0
        /\ played_bytes = c0
        /\ reads = {}
        /\ written_bytes = 0

C5_Witness ==
    /\ Filled
    /\ sample_size > 0
    /\ c0 = sample_size
    /\ Len(delivered) = sample_size
    /\ stream[len] = 0

\* C6: on a mixer that never received play_sample, the state stays
\* (null, 0, 0), no fill reads through the null sample pointer and every
\* fill yields len zeros.
C6_FreshSilence ==
    ~everSet =>
        /\ sample = Null
        /\ sample_size = 0
        /\ played_bytes = 0
        /\ pcA # "pr_memmove"
        /\ reads = {}
        /\ Filled =>
              \A i \in 1..StreamCap :
                  stream[i] = IF i <= len THEN 0 ELSE Unwritten

C6_Witness ==
    /\ ~everSet
    /\ Filled
    /\ len = MaxLen
    /\ stream[MaxLen] = 0

\* C7: no produce call reads a wav buffer that has been freed: whenever the
\* audio thread is about to copy from sample, that buffer is still live.
C7_NoReadAfterFree ==
    (pcA = "pr_memmove" /\ written_bytes > 0) =>
        (sample \in Buffers /\ live[sample])

\* C8: a produce call that holds the lock sees the buffer and length of the
\* last completed play_sample, with a cursor that counts only the bytes
\* delivered since that call; of several play_sample calls the last wins.
C8_LastSetObserved ==
    InProduce =>
        /\ sample = lastSet[1]
        /\ sample_size = IntOfUint32(lastSet[2])
        /\ pcA \in {"pr_test", "pr_memmove"} => played_bytes = Len(delivered)
        /\ pcA \in {"pr_memset", "pr_unlock"} => played_bytes = Len(delivered)
        /\ pcA = "pr_advance" => played_bytes + written_bytes = Len(delivered)

C8_Witness ==
    /\ pcA = "pr_advance"
    /\ sample \in Buffers
    /\ prev[1] \in Buffers
    /\ prev[1] # sample
    /\ prev[2] > 0
    /\ prev[3] = 0

\* C9: produce never sees a torn tuple: while it holds the lock no
\* play_sample is between its assignments, sample_size is the length of the
\* buffer sample points to, the cursor lies within it, and all bytes one
\* call copies come from that one buffer.
C9_TupleAtomic ==
    InProduce =>
        /\ ~InPlaySample
        /\ \/ (sample = Null /\ sample_size = 0 /\ played_bytes = 0)
           \/ (sample \in Buffers /\ sample_size = Len(wav[sample])
                 /\ played_bytes <= sample_size)
        /\ \A r \in reads : r[1] = sample /\ r[2] \in 1..sample_size
        /\ \A i \in 1..written_bytes :
              stream[i] = Unwritten \/ stream[i] \in BytesOf(sample)

C9_Witness ==
    /\ pcA = "pr_advance"
    /\ written_bytes = MaxLen
    /\ pcE = "ps_lock"
    /\ new_sample # sample
    /\ new_size # Uint32(sample_size)

\* C10: the mixer cannot deadlock: the two critical sections never overlap,
\* the mutex is held exactly while its owner is inside one, and under fair
\* scheduling every started play_sample and every started produce returns.
C10_NoDeadlock ==
    /\ [](~(InPlaySample /\ InProduce))
    /\ []((m = "event") <=> InPlaySample)
    /\ []((m = "audio") <=> InProduce)
    /\ (pcE = "ps_lock") ~> (pcE = "client")
    /\ (pcA = "pr_lock") ~> (pcA = "idle")

C10_Witness ==
    /\ pcE = "ps_lock"
    /\ m = "audio"
    /\ pcA = "pr_memmove"

\* a step of the event thread that enters play_sample
CallStarts == pcE # "ps_lock" /\ pcE' = "ps_lock"

\* C11: the event loop maps triggers to play_sample calls one to one: the
\* startup buffer once at loop entry, the explode buffer for each key-down
\* of a key other than Escape and q, the shoot buffer for each joystick or
\* mouse button down; a quit event or quit key leaves the loop without a
\* call, any other event calls nothing, and the loop itself never touches
\* the mixer's fields.
C11_TriggerMap ==
    [][/\ CallStarts =>
            \/ /\ pcE = "ml_startup"
               /\ new_sample' = "startup_sound"
               /\ new_size' = Uint32(SizeOf("startup_sound"))
               /\ lastSet[1] = Null
            \/ /\ pcE = "ml_dispatch"
               /\ e[1] = "SDL_KEYDOWN"
               /\ e[2] \notin {"SDLK_ESCAPE", "SDLK_q"}
               /\ new_sample' = "explode_sound"
               /\ new_size' = Uint32(SizeOf("explode_sound"))
            \/ /\ pcE = "ml_dispatch"
               /\ e[1] \in {"SDL_JOYBUTTONDOWN", "SDL_MOUSEBUTTONDOWN"}
               /\ new_sample' = "shoot_sound"
               /\ new_size' = Uint32(SizeOf("shoot_sound"))
       /\ (pcE = "ml_dispatch" /\ pcE' # pcE) =>
            /\ e' = NoEvent
            /\ CASE e[1] = "SDL_QUIT" -> pcE' = "ml_return"
                 [] e[1] = "SDL_KEYDOWN" /\ e[2] \in {"SDLK_ESCAPE", "SDLK_q"} ->
                        pcE' = "ml_return"
                 [] e[1] = "SDL_KEYDOWN" /\ e[2] \notin {"SDLK_ESCAPE", "SDLK_q"} ->
                        pcE' = "ps_lock" /\ retE' = "ml_poll"
                 [] e[1] \in {"SDL_JOYBUTTONDOWN", "SDL_MOUSEBUTTONDOWN"} ->
                        pcE' = "ps_lock" /\ retE' = "ml_poll"
                 [] OTHER -> pcE' = "ml_poll"
       /\ (pcE \in {"ml_startup", "ml_unpause", "ml_poll", "ml_dispatch",
                    "ml_render"} /\ pcE' # pcE /\ pcA' = pcA) =>
            UNCHANGED <<m, mixerVars>>
      ]_vars

C11_Witness ==
    /\ pcE = "ps_lock"
    /\ new_sample = "explode_sound"
    /\ retE = "ml_poll"
    /\ lastSet[1] = "shoot_sound"

\* C12: after play_sample(data, 0) every fill writes only zeros, never
\* reaches the copy from data and keeps the cursor at 0.
C12_ZeroLength ==
    (InProduce /\ lastSet[1] \in Buffers /\ lastSet[2] = Uint32(0)) =>
        /\ pcA \notin {"pr_memmove", "pr_advance"}
        /\ played_bytes = 0
        /\ written_bytes = 0
        /\ reads = {}
        /\ Filled => \A i \in 1..len : stream[i] = 0

C12_Witness ==
    /\ Filled
    /\ lastSet[1] \in Buffers
    /\ lastSet[2] = Uint32(0)
    /\ prev[2] > 0
    /\ stream[len] = 0
    /\ len = MaxLen

\* the mixer has an active sample with unplayed bytes
Active == played_bytes < sample_size

\* play_sample returns in this step
SetReturns == pcE = "ps_unlock" /\ pcE' # "ps_unlock"

\* this step is no part of a play_sample call
OutsideSet == ~InPlaySample /\ ~InPlaySample'

\* C13 as stated: every play_sample leaves the mixer active; it goes from
\* active to idle only in a fill in which the cursor reaches sample_size,
\* and from idle to active only in play_sample.
C13_SetActivates ==
    [][/\ SetReturns => Active'
       /\ (OutsideSet /\ Active /\ ~Active') =>
             (pcA = "pr_advance" /\ played_bytes' = sample_size)
       /\ (OutsideSet /\ ~Active) => ~Active'
      ]_vars

\* C13 as amended: play_sample leaves the cursor at 0, and the mixer active
\* exactly when the stored sample_size is above 0; outside play_sample the
\* mixer goes from active to idle only in a fill in which the cursor
\* reaches sample_size, and never from idle to active.
C13_SetActivatesNonEmpty ==
    [][/\ SetReturns => (played_bytes' = 0 /\ (Active' <=> sample_size' > 0))
       /\ (OutsideSet /\ Active /\ ~Active') =>
             (pcA = "pr_advance" /\ played_bytes' = sample_size)
       /\ (OutsideSet /\ ~Active) => ~Active'
      ]_vars

C13_Witness ==
    /\ pcE = "ps_unlock"
    /\ new_size = Uint32(0)
    /\ sample_size = 0
    /\ ~Active
    /\ prev[3] < prev[2]

\* C14: the cursor changes only in a fill, which advances it by exactly the
\* number of sample bytes it copied (min(len, sample_size - cursor)), and in
\* play_sample, which resets it to 0; so between two play_sample calls it
\* never decreases and it equals the number of sample bytes copied out
\* since the sample was set.
C14_CursorCountsDelivered ==
    /\ [][played_bytes' # played_bytes =>
             \/ /\ pcA = "pr_advance"
                /\ pcA' = "pr_memset"
                /\ played_bytes' = played_bytes + Cardinality(reads)
                /\ Cardinality(reads) = Expected(len, sample_size, played_bytes)
                /\ played_bytes' > played_bytes
             \/ /\ pcE = "ps_played"
                /\ pcE' = "ps_unlock"
                /\ played_bytes' = 0
         ]_vars
    /\ []((~InPlaySample /\ pcA # "pr_advance") => played_bytes = Len(delivered))
    /\ [](pcA = "pr_advance" => played_bytes + written_bytes = Len(delivered))

C14_Witness ==
    /\ pcA = "pr_memset"
    /\ c0 > 0
    /\ written_bytes > 0
    /\ played_bytes = c0 + written_bytes
    /\ Len(delivered) = played_bytes

\* C15: frame conditions of the mixer. A step of produce leaves sample,
\* sample_size and every wav buffer (contents and allocation) unchanged; a
\* step of play_sample leaves every wav buffer, the output stream and the
\* device unchanged; the sample slot only ever holds nullptr or one of the
\* loaded buffers, never the output stream; with no other writer the
\* buffers stay allocated and keep the bytes they were loaded with.
C15_Frame ==
    /\ [][ /\ (InProduce \/ InProduce') =>
                  (pcA' # pcA => UNCHANGED <<sample, sample_size, wav, live>>)
           /\ (InPlaySample /\ pcE' # pcE) =>
                  UNCHANGED <<wav, live, stream, len, written_bytes, dev>>
         ]_vars
    /\ [](sample \in Buffers \cup {Null})
    /\ [](\A b \in Buffers : live[b] /\ wav[b] = WavData(b, Len(wav[b])))

C15_Witness ==
    /\ Filled
    /\ written_bytes > 0
    /\ prev[1] \in Buffers
    /\ prev[1] # sample
    /\ \A b \in Buffers : live[b] /\ wav[b] = WavData(b, Len(wav[b]))

\* the first produce the audio thread runs, about to test the cursor
FirstFill == pcA = "pr_test" /\ ~filled

NoFillBeforeSet ==
    /\ dev = "paused" => (pcA = "idle" /\ ~filled)
    /\ dev = "running" => lastSet[1] \in Buffers
    /\ pcA # "idle" => (dev = "running" /\ everSet)
    /\ InProduce => (sample \in Buffers /\ sample_size = SizeOf(sample))

\* C16 as stated: no produce runs before the first play_sample has returned
\* (the device is paused until then), and the first produce finds the
\* startup sample at cursor 0.
C16_FirstFillStartup ==
    /\ NoFillBeforeSet
    /\ FirstFill => (sample = "startup_sound" /\ played_bytes = 0)

\* C16 (amended): no produce runs before the first play_sample has returned
\* (the device is paused until then), so no produce finds the constructed
\* state; the first produce finds the last sample set, at cursor 0: the
\* startup sample or the sample of an event dispatched after the unpause.
C16_FirstFillSetSample ==
    /\ NoFillBeforeSet
    /\ FirstFill => (sample = lastSet[1] /\ played_bytes = 0)

C16_Witness ==
    /\ FirstFill
    /\ sample = "explode_sound"
    /\ prev[1] = "startup_sound"
    /\ played_bytes = 0
    /\ sample_size > 0

MinLen(log) == CHOOSE x \in {log[i] : i \in 1..Len(log)} :
                   \A i \in 1..Len(log) : x <= log[i]

CeilDiv(a, n) == (a + n - 1) \div n

\* C17: if the client stops calling play_sample while the device keeps
\* asking for bytes, then from some point on played_bytes = sample_size = L
\* for the last sample set and stays so; the produce calls that found
\* unplayed bytes of one sample number at most ceil(L / len), len being the
\* smallest length asked for.
C17_Exhausts ==
    /\ []((~InPlaySample /\ fillLens # <<>>) =>
             Len(fillLens) <= CeilDiv(sample_size, MinLen(fillLens)))
    /\ (<>[](pcE = "client" /\ everSet)) =>
           <>[](/\ lastSet[1] \in Buffers
                /\ sample = lastSet[1]
                /\ sample_size = SizeOf(sample)
                /\ played_bytes = sample_size)

C17_Witness ==
    /\ pcE = "client"
    /\ pcA = "idle"
    /\ played_bytes = sample_size
    /\ sample_size = MaxSampleLen
    /\ Len(fillLens) = CeilDiv(MaxSampleLen, MaxLen)
    /\ \A i \in 1..Len(fillLens) : fillLens[i] = MaxLen

\* C18: play_sample stores the length without loss: whatever Uint32
\* new_size it is called with, the sample_size it leaves is >= 0 and is
\* that number, so a sample of length > 0 that has not been played at all
\* has unplayed bytes for produce.
C18_SizeStored ==
    /\ pcE = "ps_unlock" => (sample_size >= 0 /\ new_size = Uint32(sample_size))
    /\ (InProduce /\ lastSet[2] # Uint32(0) /\ played_bytes = 0) =>
           HasUnplayed(played_bytes, sample_size)

====
